---- MODULE Spec2Model ----
(***************************************************************************)
(* The /items CRUD service: the HTTP middleware stack of app/main.py, the  *)
(* route handlers of app/api/items.py, the unit of work of                 *)
(* app/db/connection.py and the repository of                              *)
(* app/persistence/repositories.py over the items table.                   *)
(*                                                                         *)
(* Requests run concurrently in worker slots and interleave at the awaits  *)
(* on the database: every SQL statement and every commit/rollback is one   *)
(* step.  A session sees the committed table overlaid with its own         *)
(* uncommitted writes; a row written by one open session cannot be written *)
(* by another until the first ends (the database's row lock).              *)
(* uuid4 is modelled as a fresh identifier; datetime.now(UTC) reads a      *)
(* clock that never goes back but need not advance between two reads.      *)
(***************************************************************************)
EXTENDS Integers, Sequences, FiniteSets, TLC

\* ---------------------------------------------------------------- bounds
MaxIds == 2        \* identifiers uuid4 can hand out in one run
MaxClock == 1      \* last clock reading of a run
MaxSlots == 2      \* requests in flight at once

\* ------------------------------------------------------ program constants
MaxBody == 1000000     \* limit_body_size
MinLimit == 1          \* Query(50, ge=1, le=200) and max(limit, 1)
MaxLimit == 200        \* Query(50, ge=1, le=200) and min(.., 200)
MinOffset == 0         \* Query(0, ge=0) and max(offset, 0)
MinTextLen == 1        \* Field(min_length=1, ...)
MaxNameLen == 200      \* ItemCreate.name
MaxDescLen == 1000     \* ItemCreate.description

Ids == 1..MaxIds
Slots == 1..MaxSlots

\* Text is a sequence of characters.  NoText is Python's None.
NoText == <<"None">>
NoHdr == "absent"
Generated == "uuid4"

\* What the clients send.  Lean is the menu of the concurrent runs, Rich the
\* menu of the runs that take one request at a time.
Lean == [names |-> {<<"a">>},
         descs |-> {<<"d">>},
         updNames |-> {NoText},
         updDescs |-> {NoText, <<"c", "_">>},
         queries |-> {NoText},
         limits |-> {0, 1, 200},
         offsets |-> {0, 1},
         lens |-> {MaxBody},
         hdrs |-> {NoHdr}]
Rich == [names |-> {<<"a">>, <<>>},
         descs |-> {<<"d">>},
         updNames |-> {NoText, <<"A", "b">>},
         updDescs |-> {NoText, <<"c", "_">>},
         queries |-> {NoText, <<>>, <<"a">>, <<"B">>, <<"_">>, <<"%">>},
         limits |-> {0, 1, 200, 201},
         offsets |-> {0, 1},
         lens |-> {0, MaxBody, MaxBody + 1},
         hdrs |-> {NoHdr, "client"}]

Min(a, b) == IF a <= b THEN a ELSE b
Max(a, b) == IF a >= b THEN a ELSE b

\* ------------------------------------------------------------------ Item
NoItem == [id |-> 0, name |-> <<>>, description |-> <<>>,
           created_at |-> 0, updated_at |-> 0]
NoWrite == [id |-> -1, name |-> <<>>, description |-> <<>>,
            created_at |-> 0, updated_at |-> 0]

\* Item(name=..., description=...) at INSERT: the column defaults are three
\* separate callables, uuid4 and two reads of the clock, created_at first.
NewItem(newId, name, description, now1, now2) ==
  [id |-> newId, name |-> name, description |-> description,
   created_at |-> now1, updated_at |-> now2]

VARIABLES table, clock, nextId, req, deleted, lastCreated

\* table        the committed rows of `items`, by id (NoItem: no such row)
\* clock        the last reading of datetime.now(UTC)
\* nextId       the next identifier uuid4 hands out
\* req          the request each worker slot is serving, or its response
\* deleted      the ids whose DELETE was answered 204
\* lastCreated  the id of the last item whose POST was answered 201
vars == <<table, clock, nextId, req, deleted, lastCreated>>

\* ------------------------------------------------------------- text match
\* ILIKE compares without regard to case.
Lower(c) == CASE c = "A" -> "a" [] c = "B" -> "b" [] c = "C" -> "c"
              [] c = "D" -> "d" [] OTHER -> c

\* SQL LIKE: in the pattern '%' stands for any run of characters and '_' for
\* any one character; every other character stands for itself.
RECURSIVE LikeMatch(_, _)
LikeMatch(pat, txt) ==
  IF pat = <<>> THEN txt = <<>>
  ELSE IF Head(pat) = "%"
       THEN \/ LikeMatch(Tail(pat), txt)
            \/ txt # <<>> /\ LikeMatch(pat, Tail(txt))
  ELSE IF txt = <<>> THEN FALSE
  ELSE IF Head(pat) = "_" THEN LikeMatch(Tail(pat), Tail(txt))
  ELSE Lower(Head(pat)) = Lower(Head(txt)) /\ LikeMatch(Tail(pat), Tail(txt))

\* like = f"%{q}%"; Item.name.ilike(like)
Ilike(txt, q) == LikeMatch(<<"%">> \o q \o <<"%">>, txt)

\* `if q:` is false for None and for the empty string.
Truthy(q) == q # NoText /\ q # <<>>

\* the WHERE clause of list()
Matches(item, q) ==
  Truthy(q) => (Ilike(item.name, q) \/ Ilike(item.description, q))

\* ------------------------------------------------------------ validation
ValidName(t) == t # NoText /\ Len(t) >= MinTextLen /\ Len(t) <= MaxNameLen
ValidDesc(t) == t # NoText /\ Len(t) >= MinTextLen /\ Len(t) <= MaxDescLen
\* ItemCreate: both fields required and length-checked
ValidCreate(name, description) == ValidName(name) /\ ValidDesc(description)
\* ItemUpdate: either field may be None, a given one is length-checked
ValidUpdate(name, description) ==
  /\ name = NoText \/ ValidName(name)
  /\ description = NoText \/ ValidDesc(description)
\* list_items' Query(...) constraints
ValidList(limit, offset) ==
  limit >= MinLimit /\ limit <= MaxLimit /\ offset >= MinOffset

\* update_item: any(v is not None for v in payload.model_dump().values())
HasFieldsUnchecked(name, description) == TRUE
HasFields(name, description) == name # NoText \/ description # NoText

\* ------------------------------------------------------ unit of work
\* What a session reads: the committed rows under its own pending writes.
View(tbl, pend) ==
  [i \in Ids |-> IF pend[i] = NoWrite THEN tbl[i] ELSE pend[i]]

NoPending == [i \in Ids |-> NoWrite]

\* session.commit(): the pending writes reach the table
SessionCommit(tbl, pend) == View(tbl, pend)
\* (a rollback that lets the pending writes through)
SessionRollbackKeeps(tbl, pend) == View(tbl, pend)
\* session.rollback(): the pending writes are dropped
SessionRollback(tbl, pend) == tbl

\* ------------------------------------------------------------- repository
Visible(view) == {i \in Ids : view[i] # NoItem}

\* the orderings ORDER BY created_at DESC allows (ties fall either way)
DescOrderings(view, S) ==
  {o \in [1..Cardinality(S) -> S] :
     /\ \A i, j \in DOMAIN o : i # j => o[i] # o[j]
     /\ \A i, j \in DOMAIN o :
          i < j => view[o[i]].created_at >= view[o[j]].created_at}

\* .limit(min(max(limit, 1), 200)).offset(max(offset, 0))
PageNoOffset(o, limit, offset) ==
  SubSeq(o, 1, Min(Len(o), Min(Max(limit, MinLimit), MaxLimit)))
Page(o, limit, offset) ==
  SubSeq(o, Max(offset, MinOffset) + 1,
         Min(Len(o), Max(offset, MinOffset) + Min(Max(limit, MinLimit), MaxLimit)))

\* list(): the sequences of items the SELECT may return
RepoList(view, limit, offset, q) ==
  LET S == {i \in Visible(view) : Matches(view[i], q)}
  IN  {[k \in DOMAIN Page(o, limit, offset) |-> view[Page(o, limit, offset)[k]]] :
         o \in DescOrderings(view, S)}

\* update(): the row after UPDATE ... SET <given fields>; onupdate refreshes
\* updated_at with a clock reading
UpdateTouchesCreated(old, name, description, now) ==
  [old EXCEPT !.name = IF name = NoText THEN @ ELSE name,
              !.description = IF description = NoText THEN @ ELSE description,
              !.created_at = now,
              !.updated_at = now]
UpdateAllFields(old, name, description, now) ==
  [old EXCEPT !.name = name, !.description = description, !.updated_at = now]
RepoUpdateRow(old, name, description, now) ==
  [old EXCEPT !.name = IF name = NoText THEN @ ELSE name,
              !.description = IF description = NoText THEN @ ELSE description,
              !.updated_at = now]

\* delete(): res.rowcount == 1
DeleteAlwaysOk(rowcount) == TRUE
DeleteOk(rowcount) == rowcount = 1

\* ------------------------------------------------------------ middleware
\* limit_body_size: len(body) > 1_000_000
TooLargeFrom(len) == len >= MaxBody
TooLarge(len) == len > MaxBody

\* add_request_id: request.headers.get("x-request-id") or str(uuid.uuid4())
RidOf(hdr) == IF hdr = NoHdr \/ hdr = "" THEN Generated ELSE hdr

\* The x-request-id header of a response.  add_middleware puts the later
\* middleware outside: limit_body_size answers 413 itself, outside
\* add_request_id; an exception that is no HTTPException passes through
\* add_request_id's call_next to the Exception handler of the outermost
\* layer.  Only a response returned through call_next gets the header.
HeaderOf(status, hdr) ==
  IF status = 413 \/ status = 500 THEN NoHdr ELSE RidOf(hdr)

\* status_code of each route's success response
SuccessStatus(route) ==
  CASE route = "create" -> 201 [] route = "delete" -> 204 [] OTHER -> 200

\* ---------------------------------------------------------------- state
IdleReq == [pc |-> "idle", route |-> "none", id |-> 0, name |-> NoText,
            description |-> NoText, limit |-> 0, offset |-> 0, q |-> NoText,
            hdr |-> NoHdr, len |-> 0, pend |-> NoPending, item |-> NoItem,
            items |-> <<>>, err |-> 0, nstmt |-> 0, sessions |-> 0,
            status |-> 0, rid |-> NoHdr]

\* The response to request r, held in its slot until the slot takes the next
\* request: the status, the x-request-id header, and of the request the
\* x-request-id header, the body length, the sessions opened and the
\* statements run.
Response(r, status) ==
  [IdleReq EXCEPT !.pc = "done", !.status = status,
                  !.rid = HeaderOf(status, r.hdr), !.hdr = r.hdr,
                  !.len = r.len, !.sessions = r.sessions, !.nstmt = r.nstmt]

Free(s) == req[s].pc \in {"idle", "done"}

Init ==
  /\ table = [i \in Ids |-> NoItem]
  /\ clock = 0
  /\ nextId = 1
  /\ req = [s \in Slots |-> IdleReq]
  /\ deleted = {}
  /\ lastCreated = 0

\* datetime.now(UTC) moves on between two reads
Tick ==
  /\ clock < MaxClock
  /\ clock' = clock + 1
  /\ UNCHANGED <<table, nextId, req, deleted, lastCreated>>

\* limit_body_size answers 413 before call_next: no route, no session
RejectTooLarge(s, m) ==
  /\ Free(s)
  /\ \E len \in m.lens, hdr \in m.hdrs :
       /\ TooLarge(len)
       /\ req' = [req EXCEPT ![s] =
            Response([IdleReq EXCEPT !.len = len, !.hdr = hdr], 413)]
  /\ UNCHANGED <<table, clock, nextId, deleted, lastCreated>>

\* a path no route matches: the router's 404, returned through call_next
RouteNotFound(s, m) ==
  /\ Free(s)
  /\ \E len \in m.lens, hdr \in m.hdrs :
       /\ ~TooLarge(len)
       /\ req' = [req EXCEPT ![s] =
            Response([IdleReq EXCEPT !.len = len, !.hdr = hdr], 404)]
  /\ UNCHANGED <<table, clock, nextId, deleted, lastCreated>>

\* What is left of request r once its handler has raised: the request, the
\* exception and the open session.
Raised(r, err) ==
  [IdleReq EXCEPT !.pc = "raised", !.err = err, !.route = r.route,
                  !.id = r.id, !.name = r.name,
                  !.description = r.description, !.hdr = r.hdr, !.len = r.len,
                  !.pend = r.pend, !.sessions = r.sessions,
                  !.nstmt = r.nstmt]

\* What is left of request r once its handler has returned: the return value
\* and the open session.
Returned(r, item, items) ==
  [IdleReq EXCEPT !.pc = "returned", !.route = r.route, !.id = r.id,
                  !.hdr = r.hdr, !.len = r.len, !.pend = r.pend,
                  !.sessions = r.sessions, !.nstmt = r.nstmt,
                  !.item = item, !.items = items]

\* A request of an /items route passes the middlewares, get_session opens its
\* session, the parameters are validated and the handler runs to its first
\* await on the database.
Enter(s, r, valid) ==
  /\ Free(s)
  /\ ~TooLarge(r.len)
  /\ req' = [req EXCEPT ![s] =
       IF ~valid THEN Raised([r EXCEPT !.sessions = 1], 422)
       ELSE IF r.route = "update" /\ ~HasFields(r.name, r.description)
            THEN Raised([r EXCEPT !.sessions = 1], 400)
       ELSE [r EXCEPT !.pc = "stmt", !.sessions = 1]]
  /\ UNCHANGED <<table, clock, nextId, deleted, lastCreated>>

BeginList(s, m) ==
  \E len \in m.lens, hdr \in m.hdrs, limit \in m.limits,
     offset \in m.offsets, q \in m.queries :
    Enter(s, [IdleReq EXCEPT !.route = "list", !.len = len, !.hdr = hdr,
                             !.limit = limit, !.offset = offset, !.q = q],
          ValidList(limit, offset))

BeginGet(s, m) ==
  \E len \in m.lens, hdr \in m.hdrs, id \in Ids :
    Enter(s, [IdleReq EXCEPT !.route = "get", !.len = len, !.hdr = hdr,
                             !.id = id], TRUE)

BeginCreate(s, m) ==
  \E len \in m.lens, hdr \in m.hdrs, name \in m.names,
     description \in m.descs :
    Enter(s, [IdleReq EXCEPT !.route = "create", !.len = len, !.hdr = hdr,
                             !.name = name, !.description = description],
          ValidCreate(name, description))

BeginUpdate(s, m) ==
  \E len \in m.lens, hdr \in m.hdrs, id \in Ids, name \in m.updNames,
     description \in m.updDescs :
    Enter(s, [IdleReq EXCEPT !.route = "update", !.len = len, !.hdr = hdr,
                             !.id = id, !.name = name,
                             !.description = description],
          ValidUpdate(name, description))

BeginDelete(s, m) ==
  \E len \in m.lens, hdr \in m.hdrs, id \in Ids :
    Enter(s, [IdleReq EXCEPT !.route = "delete", !.len = len, !.hdr = hdr,
                             !.id = id], TRUE)

\* The row lock: another open session holds an uncommitted write of row i.
LockedByOther(s, i) ==
  /\ table[i] # NoItem
  /\ \E t \in Slots \ {s} : req[t].pend[i] # NoWrite

MyView(s) == View(table, req[s].pend)

Ran(r) == [r EXCEPT !.nstmt = @ + 1]

\* list_items -> svc.list -> repo.list
ExecList(s) ==
  /\ req[s].pc = "stmt" /\ req[s].route = "list"
  /\ \E res \in RepoList(MyView(s), req[s].limit, req[s].offset, req[s].q) :
       req' = [req EXCEPT ![s] = Returned(Ran(req[s]), NoItem, res)]
  /\ UNCHANGED <<table, clock, nextId, deleted, lastCreated>>

\* get_item -> svc.get -> repo.get_by_id; `if not item: raise 404`
ExecGet(s) ==
  /\ req[s].pc = "stmt" /\ req[s].route = "get"
  /\ LET found == MyView(s)[req[s].id]
     IN  req' = [req EXCEPT ![s] =
           IF found = NoItem THEN Raised(Ran(req[s]), 404)
           ELSE Returned(Ran(req[s]), found, <<>>)]
  /\ UNCHANGED <<table, clock, nextId, deleted, lastCreated>>

\* create_item -> svc.create -> repo.create: session.add + flush (INSERT)
ExecInsert(s) ==
  /\ req[s].pc = "stmt" /\ req[s].route = "create"
  /\ nextId <= MaxIds
  /\ \E d \in {0, 1} :
       /\ clock + d <= MaxClock
       /\ clock' = clock + d
       /\ LET item == NewItem(nextId, req[s].name, req[s].description,
                              clock, clock + d)
          IN  req' = [req EXCEPT ![s] =
                [Ran(req[s]) EXCEPT !.pend[nextId] = item, !.id = nextId,
                                    !.pc = "refresh"]]
  /\ nextId' = nextId + 1
  /\ UNCHANGED <<table, deleted, lastCreated>>

\* repo.create: session.refresh(item) (SELECT of the new row); return item
ExecRefresh(s) ==
  /\ req[s].pc = "refresh"
  /\ req' = [req EXCEPT ![s] =
       Returned(Ran(req[s]), MyView(s)[req[s].id], <<>>)]
  /\ UNCHANGED <<table, clock, nextId, deleted, lastCreated>>

\* update_item -> svc.update -> repo.update; `if not updated: raise 404`
ExecUpdate(s) ==
  /\ req[s].pc = "stmt" /\ req[s].route = "update"
  /\ LET r == req[s]
         old == MyView(s)[r.id]
         new == RepoUpdateRow(old, r.name, r.description, clock)
     IN  IF r.name = NoText /\ r.description = NoText
         THEN \* `if not fields: return await self.get_by_id(item_id)`
              req' = [req EXCEPT ![s] =
                IF old = NoItem THEN Raised(Ran(r), 404)
                ELSE Returned(Ran(r), old, <<>>)]
         ELSE /\ ~LockedByOther(s, r.id)
              /\ req' = [req EXCEPT ![s] =
                   IF old = NoItem THEN Raised(Ran(r), 404)
                   ELSE Returned([Ran(r) EXCEPT !.pend[r.id] = new],
                                 new, <<>>)]
  /\ UNCHANGED <<table, clock, nextId, deleted, lastCreated>>

\* delete_item -> svc.delete -> repo.delete; `if not ok: raise 404`
ExecDelete(s) ==
  /\ req[s].pc = "stmt" /\ req[s].route = "delete"
  /\ ~LockedByOther(s, req[s].id)
  /\ LET r == req[s]
         rowcount == IF MyView(s)[r.id] # NoItem THEN 1 ELSE 0
         after == [Ran(r) EXCEPT
                     !.pend[r.id] = IF rowcount = 1 THEN NoItem ELSE @]
     IN  req' = [req EXCEPT ![s] =
           IF DeleteOk(rowcount) THEN Returned(after, NoItem, <<>>)
           ELSE Raised(after, 404)]
  /\ UNCHANGED <<table, clock, nextId, deleted, lastCreated>>

\* a statement fails in the database: session.execute/flush/refresh raises
DbError(s) ==
  /\ req[s].pc \in {"stmt", "refresh"}
  /\ req' = [req EXCEPT ![s] = Raised(Ran(req[s]), 500)]
  /\ UNCHANGED <<table, clock, nextId, deleted, lastCreated>>

\* session_scope after the handler returned: `await session.commit()`
Commit(s) ==
  /\ req[s].pc = "returned"
  /\ table' = SessionCommit(table, req[s].pend)
  /\ deleted' = IF req[s].route = "delete" THEN deleted \cup {req[s].id}
                ELSE deleted
  /\ lastCreated' = IF req[s].route = "create" THEN req[s].id
                    ELSE lastCreated
  /\ req' = [req EXCEPT ![s] = Response(req[s], SuccessStatus(req[s].route))]
  /\ UNCHANGED <<clock, nextId>>

\* session_scope: commit() itself raises; `except Exception: rollback; raise`
CommitFails(s) ==
  /\ req[s].pc = "returned"
  /\ table' = SessionRollback(table, req[s].pend)
  /\ req' = [req EXCEPT ![s] = Response(req[s], 500)]
  /\ UNCHANGED <<clock, nextId, deleted, lastCreated>>

\* session_scope after the handler raised: `except Exception: rollback; raise`
Rollback(s) ==
  /\ req[s].pc = "raised"
  /\ table' = SessionRollback(table, req[s].pend)
  /\ req' = [req EXCEPT ![s] = Response(req[s], req[s].err)]
  /\ UNCHANGED <<clock, nextId, deleted, lastCreated>>

\* slot s takes a request of an /items route, its inputs drawn from menu m
ReceiveItems(s, m) ==
  \/ BeginList(s, m) \/ BeginGet(s, m) \/ BeginCreate(s, m)
  \/ BeginUpdate(s, m) \/ BeginDelete(s, m)

\* slot s takes any request
Receive(s, m) ==
  \/ RejectTooLarge(s, m) \/ RouteNotFound(s, m) \/ ReceiveItems(s, m)

\* the request in slot s takes its next step
Run(s) ==
  \/ ExecList(s) \/ ExecGet(s) \/ ExecInsert(s) \/ ExecRefresh(s)
  \/ ExecUpdate(s) \/ ExecDelete(s) \/ DbError(s)
  \/ Commit(s) \/ CommitFails(s) \/ Rollback(s)

\* concurrent requests to the /items routes
Next == Tick \/ \E s \in Slots : ReceiveItems(s, Lean) \/ Run(s)

Spec == Init /\ [][Next]_vars

\* one request at a time, every route, the whole menu
NextSeq == Tick \/ Receive(1, Rich) \/ Run(1)

SpecSeq == Init /\ [][NextSeq]_vars

\* ================================================================ claims
Stepped(s) == req'[s] # req[s]
Success == {200, 201, 204}
IdsOf(items) == {items[k].id : k \in DOMAIN items}

\* C1: a request's session is committed when its handler returned and rolled
\* back, with the error passed on as the response, when it raised (or when
\* the commit itself failed); every request of an /items route has exactly
\* one session; under any interleaving the table changes only by the commit
\* of a request whose handler returned, and then by exactly that request's
\* writes; a request that ends in an error leaves the table as it was.
C1_UnitOfWork ==
  [][/\ \A s \in Slots :
          /\ (req[s].pc = "returned" /\ Stepped(s)) =>
               /\ req'[s].pc = "done" /\ req'[s].sessions = 1
               /\ \/ /\ req'[s].status = SuccessStatus(req[s].route)
                     /\ table' = View(table, req[s].pend)
                  \/ /\ req'[s].status = 500
                     /\ table' = table
          /\ (req[s].pc = "raised" /\ Stepped(s)) =>
               /\ req'[s].pc = "done" /\ req'[s].sessions = 1
               /\ req[s].err \in {400, 404, 422, 500}
               /\ req'[s].status = req[s].err
               /\ table' = table
     /\ table' # table =>
          \E s \in Slots : /\ req[s].pc = "returned"
                           /\ req'[s].pc = "done"
                           /\ req'[s].status \in Success]_vars

\* C1 witness: the only create so far wrote its row and then failed
\* (refresh or commit raised); it was answered 500 and the table is empty.
C1_RolledBackCreate ==
  \E s \in Slots :
    /\ req[s].pc = "done" /\ req[s].status = 500 /\ req[s].nstmt >= 2
    /\ nextId = 2
    /\ \A i \in Ids : table[i] = NoItem
    /\ \A t \in Slots : req[t].pend = NoPending

\* C2: the item a create returns has a generated id that no earlier item
\* had, deleted ones included, and its created_at equals its updated_at.
C2_CreateResult ==
  \A s \in Slots :
    (req[s].pc = "returned" /\ req[s].route = "create") =>
      /\ req[s].item.id \in Ids
      /\ req[s].item.id \notin deleted
      /\ table[req[s].item.id] = NoItem
      /\ \A t \in Slots \ {s} : req[t].pend[req[s].item.id] = NoWrite
      /\ req[s].item.created_at = req[s].item.updated_at

\* A PATCH with fields runs its UPDATE on a row it can see, and the statement
\* does not fail.
PatchRuns(s) ==
  /\ req[s].pc = "stmt" /\ req[s].route = "update"
  /\ HasFields(req[s].name, req[s].description)
  /\ MyView(s)[req[s].id] # NoItem
  /\ Stepped(s) /\ req'[s].err # 500

PatchFrame(s, strictly) ==
  LET r == req[s]
      old == MyView(s)[r.id]
      new == req'[s].item
  IN  /\ req'[s].pc = "returned"
      /\ new.id = old.id /\ new.created_at = old.created_at
      /\ new.name = IF r.name = NoText THEN old.name ELSE r.name
      /\ new.description =
           IF r.description = NoText THEN old.description ELSE r.description
      /\ IF strictly THEN new.updated_at > old.updated_at
         ELSE new.updated_at = clock /\ new.updated_at >= old.updated_at
      /\ req'[s].pend[r.id] = new

PatchAnswered(s) ==
  (req[s].pc = "returned" /\ req[s].route = "update" /\ Stepped(s)
     /\ req'[s].status # 500) =>
    /\ req'[s].status = 200
    /\ table'[req[s].id] = req[s].item

\* C3 as stated: a PATCH of an existing item is answered 200, sets the given
\* fields, leaves an absent or null field as it was and moves updated_at
\* strictly past its prior value.
C3_PatchAdvancesStrictly ==
  [][\A s \in Slots : /\ PatchRuns(s) => PatchFrame(s, TRUE)
                      /\ PatchAnswered(s)]_vars

\* C3 amended: as above, but updated_at becomes the clock reading at the
\* update, which is not before its prior value and may equal it.
C3_PatchFrame ==
  [][\A s \in Slots : /\ PatchRuns(s) => PatchFrame(s, FALSE)
                      /\ PatchAnswered(s)]_vars

\* C3 witness: a description-only PATCH returned the item with the new
\* description, the old name and a later updated_at.
C3_PatchedDescription ==
  \E s \in Slots :
    /\ req[s].pc = "returned" /\ req[s].route = "update"
    /\ req[s].item.description = <<"c", "_">>
    /\ req[s].item.name = <<"a">>
    /\ req[s].item.updated_at > req[s].item.created_at

\* C4: once a DELETE of an id was answered 204, the row is in no table and no
\* session's view ever again, and every GET or DELETE of that id that runs
\* afterwards raises 404 (500 if the statement itself fails), which is the
\* status sent.
C4_DeletedStaysGone ==
  /\ [](\A i \in deleted :
          table[i] = NoItem /\ \A s \in Slots : MyView(s)[i] = NoItem)
  /\ [][\A s \in Slots :
          /\ (/\ req[s].pc = "stmt" /\ req[s].route \in {"get", "delete"}
              /\ req[s].id \in deleted /\ Stepped(s)) =>
               (req'[s].pc = "raised" /\ req'[s].err \in {404, 500})
          /\ (req[s].pc = "raised" /\ Stepped(s)) =>
               req'[s].status = req[s].err]_vars

\* C4 witness: a second DELETE of a deleted id has raised 404.
C4_SecondDelete404 ==
  \E s \in Slots :
    /\ req[s].pc = "raised" /\ req[s].err = 404
    /\ req[s].route = "delete" /\ req[s].id \in deleted

\* C5: every response carries x-request-id: the caller's when one was sent,
\* a generated one otherwise.
C5_RequestIdOnEveryResponse ==
  \A s \in Slots :
    req[s].pc = "done" =>
      req[s].rid = (IF req[s].hdr = NoHdr THEN Generated ELSE req[s].hdr)

ListRuns(s) ==
  req[s].pc = "stmt" /\ req[s].route = "list" /\ req'[s].pc = "returned"

Matching(s) ==
  {i \in Visible(MyView(s)) : Matches(MyView(s)[i], req[s].q)}

Newer(view, S, x) ==
  {j \in S \ {x} : view[j].created_at > view[x].created_at}
NotOlder(view, S, x) ==
  {j \in S \ {x} : view[j].created_at >= view[x].created_at}

\* The result is a page of a newest-first ordering of the matching items:
\* no more than limit and than 200 items, as many as the matching items
\* from position offset on allow, each a matching item, none twice, newest
\* first, and the k-th of them at a place offset + k that its created_at
\* allows.
PageOfNewestFirst(s) ==
  LET r == req[s]
      view == MyView(s)
      S == Matching(s)
      res == req'[s].items
  IN  /\ Len(res) <= r.limit /\ Len(res) <= MaxLimit
      /\ Len(res) = Min(r.limit, Max(0, Cardinality(S) - r.offset))
      /\ \A k \in DOMAIN res : res[k].id \in S /\ res[k] = view[res[k].id]
      /\ \A k, l \in DOMAIN res :
           k < l => /\ res[k].id # res[l].id
                    /\ res[k].created_at >= res[l].created_at
      /\ \A k \in DOMAIN res :
           /\ Cardinality(Newer(view, S, res[k].id)) <= r.offset + k - 1
           /\ r.offset + k - 1 <= Cardinality(NotOlder(view, S, res[k].id))

NoTies(view) ==
  \A i, j \in Visible(view) : i # j => view[i].created_at # view[j].created_at

\* C6 as stated: a list with limit in [1,200] and offset >= 0 returns that
\* page, and the item just created is on the first page of an unfiltered
\* list.  (Stated for tables in which no two items share created_at, where
\* "the newest-first ordering" is one ordering.)
C6_JustCreatedOnFirstPage ==
  [][\A s \in Slots :
       (/\ ListRuns(s) /\ NoTies(MyView(s))
        /\ req[s].limit \in MinLimit..MaxLimit /\ req[s].offset >= MinOffset) =>
         /\ PageOfNewestFirst(s)
         /\ (/\ req[s].offset = 0 /\ ~Truthy(req[s].q)
             /\ lastCreated \in Visible(MyView(s))) =>
              lastCreated \in IdsOf(req'[s].items)]_vars

\* C6 amended: a list with limit in [1,200] and offset >= 0 returns that
\* page of a newest-first ordering (items of equal created_at in either
\* order), and an item is on the first page of an unfiltered list whenever
\* fewer than limit other items have a created_at at or after its own.
C6_ListPage ==
  [][\A s \in Slots :
       (/\ ListRuns(s)
        /\ req[s].limit \in MinLimit..MaxLimit /\ req[s].offset >= MinOffset) =>
         /\ PageOfNewestFirst(s)
         /\ \A x \in Visible(MyView(s)) :
              (/\ req[s].offset = 0 /\ ~Truthy(req[s].q)
               /\ Cardinality(NotOlder(MyView(s), Visible(MyView(s)), x))
                    < req[s].limit) =>
                x \in IdsOf(req'[s].items)]_vars

\* C6 witness: a list returned one item of two: the page was cut.
C6_PageCut ==
  \E s \in Slots :
    /\ req[s].pc = "returned" /\ req[s].route = "list"
    /\ Len(req[s].items) = 1
    /\ Cardinality(Visible(MyView(s))) = 2

\* q occurs in txt as it stands, letter case aside
Contains(txt, q) ==
  \E i \in 1..(Len(txt) - Len(q) + 1) :
    \A k \in 1..Len(q) : Lower(txt[i + k - 1]) = Lower(q[k])

\* C7: with q given, the unpaginated result holds the items whose name or
\* description contains q as a literal substring, case aside, and no others,
\* also for a q holding '%' or '_'; without q it holds every item.
C7_LiteralSubstring ==
  [][\A s \in Slots :
       (/\ ListRuns(s) /\ req[s].offset = 0
        /\ req[s].limit >= Cardinality(Visible(MyView(s)))) =>
         IdsOf(req'[s].items) =
           {i \in Visible(MyView(s)) :
              \/ req[s].q = NoText
              \/ Contains(MyView(s)[i].name, req[s].q)
              \/ Contains(MyView(s)[i].description, req[s].q)}]_vars

\* C8: a request whose body is over 1,000,000 bytes is answered 413 at once,
\* with no session opened, no statement run and the table as it was; a
\* request whose body is 1,000,000 bytes or less is never answered 413.
C8_BodyLimit ==
  [][\A s \in Slots :
       /\ (Free(s) /\ Stepped(s)) =>
            IF req'[s].len > MaxBody
            THEN /\ req'[s].pc = "done" /\ req'[s].status = 413
                 /\ req'[s].sessions = 0 /\ req'[s].nstmt = 0
                 /\ table' = table
            ELSE req'[s].status # 413
       /\ req'[s].status = 413 => req'[s].len > MaxBody]_vars

\* C8 witness: a body of 1,000,001 bytes was answered 413 while an item is
\* stored.
C8_Rejected ==
  \E s \in Slots :
    /\ req[s].pc = "done" /\ req[s].status = 413
    /\ req[s].len = MaxBody + 1
    /\ \E i \in Ids : table[i] # NoItem

\* C9: a PATCH with no field set raises 400 before any statement, whether
\* or not the id exists, and is answered 400 with the table as it was.
C9_EmptyPatch ==
  /\ [](\A s \in Slots :
          (/\ req[s].route = "update" /\ req[s].pc \in {"stmt", "raised"}
           /\ req[s].name = NoText /\ req[s].description = NoText) =>
            /\ req[s].pc = "raised" /\ req[s].err = 400
            /\ req[s].nstmt = 0 /\ req[s].pend = NoPending)
  /\ [][\A s \in Slots :
          (req[s].pc = "raised" /\ req[s].err = 400 /\ Stepped(s)) =>
            /\ req'[s].status = 400 /\ req'[s].nstmt = 0
            /\ table' = table]_vars

\* C9 witness: an empty PATCH of an id that has no row has raised 400.
C9_EmptyPatchUnknownId ==
  \E s \in Slots :
    /\ req[s].pc = "raised" /\ req[s].err = 400
    /\ req[s].route = "update" /\ table[req[s].id] = NoItem

====
